---- MODULE Spec2Model ----
(***************************************************************************)
(* The equation parser of go-xmile (package smile): the lexer, the         *)
(* precedence-level parser and Parse, translated function by function.     *)
(*                                                                         *)
(* Strings are sequences of runes; a rune is a one-character string.  All  *)
(* runes of the model are ASCII, so a rune is one byte wide and the byte   *)
(* offset l.pos indexes the sequence at l.pos + 1.  Go objects are         *)
(* records; a method that mutates its receiver returns the new record.     *)
(***************************************************************************)
EXTENDS Integers, Sequences, FiniteSets, TLC

(***************************************************************************)
(* State: one Parse call in progress, and the calls made before it         *)
(***************************************************************************)
VARIABLES
    argName, \* Parse's argument: the name diagnostics are attributed to
    argEqn,  \* Parse's argument: the equation text
    pc,     \* where the call is: "call", "parse", "check", "done", "panic"
    fileSet, \* the token.FileSet of the call (a local of Parse)
    parser, \* the parser of the call, with its lexer and diagnostics
    parsed, \* what p.Parse() returned: [x, ok]
    ret,    \* what Parse returned: [ast, err]
    prev,   \* an earlier completed call: [set, name, eqn, ret]
    lx,     \* a lexer whose Peek() and Token() are called one by one
    lexCall, \* the call of lx in progress: "none", "Token" or "Peek"
    steps,  \* the state functions run so far by the call in progress
    out,    \* the tokens lx.Token() returned, in order
    seen,   \* what lx.Peek() returned since the last Token(), or nil
    insp,   \* an Inspect call: its callback, the nodes still to visit, the
            \* nodes the callback was given, and the callback's variables
    rf      \* a compat.ReadFile call: its contents, the File it fills, the
            \* model and variable its loops are at, and what it returns

lexVars == <<lx, lexCall, steps, out, seen>>

vars == <<argName, argEqn, pc, fileSet, parser, parsed, ret, prev,
          lx, lexCall, steps, out, seen, insp, rf>>

(***************************************************************************)
(* Runes and rune classes                                                  *)
(***************************************************************************)

\* const eof = 0: next() returns it at the end of the text.  The NUL rune
\* is not in the model's alphabet, so eof is a label no input contains.
eof == "EOF"

Digits == {"0", "1", "2", "3", "4", "5", "6", "7", "8", "9"}

\* unicode.IsDigit, on the model's alphabet
IsDigit(r) == r \in Digits

\* unicode.IsSpace, on the model's alphabet
IsSpace(r) == r \in {" ", "\n", "\t", "\r"}

isLiteralStart(r) == r = "\""

isOperator(r) == r \in {",", "+", "-", "*", "/", "|", "&", "=", "(", ")", "[", "]", ":", ">", "<"}

\* isIdentifierStart, were it to leave out the punctuation isOperator lacks
isIdentifierStartNoPunct(r) ==
    ~(IsDigit(r) \/ IsSpace(r) \/ isOperator(r) \/ r \in {"^", "{", "}", "!", "?"})

isIdentifierStart(r) == ~(IsDigit(r) \/ IsSpace(r) \/ isOperator(r))

isAlphaNumeric(r) == ~(IsSpace(r) \/ isOperator(r) \/ r = ";" \/ r = eof)

\* utf8.DecodeRuneInString's width: every rune of the model is ASCII
RuneLen(r) == IF r = eof THEN 0 ELSE 1

(***************************************************************************)
(* itemType                                                                *)
(***************************************************************************)
itemEOF == "eof"
itemIdentifier == "ident"
itemNumber == "num"
itemSemi == "semi"
itemOperator == "op"
itemLiteral == "lit"
itemLBracket == "lbrac"
itemRBracket == "rbrac"
itemLParen == "lparen"
itemRParen == "rparen"
itemLSquare == "lsquare"
itemRSquare == "rsquare"

\* a nil *Token
NilTok == [kind |-> "nil", pos |-> 0, val |-> <<>>]

\* type Token struct
Token(kind, pos, val) == [kind |-> kind, pos |-> pos, val |-> val]

(***************************************************************************)
(* go/token: FileSet, File, Pos, Position                                  *)
(***************************************************************************)

\* NewFileSet, were the file set one package-level registry shared by every
\* call instead of a local of Parse
NewFileSetShared == fileSet

\* token.NewFileSet(): a fresh set, whose Base() is 1
NewFileSet == [base |-> 1]

\* fset.AddFile(name, fset.Base(), size): the file starts at the set's base
\* and has one line, starting at offset 0
AddFile(fset, name, size) ==
    [name |-> name, base |-> fset.base, size |-> size, lines |-> <<0>>]

\* f.AddLine(offset): ignored unless past the last line start and inside
\* the file
AddLine(f, offset) ==
    IF f.lines[Len(f.lines)] < offset /\ offset < f.size
    THEN [f EXCEPT !.lines = Append(@, offset)]
    ELSE f

\* f.Pos(offset)
FilePos(f, offset) == f.base + offset

\* the 1-based index of the last line start <= offset
RECURSIVE searchLine(_, _, _)
searchLine(lines, offset, i) ==
    IF i < Len(lines) /\ lines[i + 1] <= offset
    THEN searchLine(lines, offset, i + 1)
    ELSE i

\* fset.Position(pos): file name, offset, line and column of a Pos
Position(f, pos) ==
    LET offset == pos - f.base
        line == searchLine(f.lines, offset, 1)
    IN [Filename |-> f.name, Offset |-> offset, Line |-> line,
        Column |-> offset - f.lines[line] + 1]

\* the zero token.Position, used when errorf gets a nil token
NoPosition == [Filename |-> <<>>, Offset |-> 0, Line |-> 0, Column |-> 0]

(***************************************************************************)
(* lexer                                                                   *)
(***************************************************************************)

\* make(chan *Token, 2): the capacity of l.items
ItemsCap == 2

\* newLexer(input, file).  halted records that the goroutine can no longer
\* run: a send on the full channel, a slice out of range, or a call of the
\* nil state function.
newLexer(input, file) ==
    [f |-> file, s |-> input, pos |-> 0, start |-> 0, width |-> 0,
     last |-> NilTok, items |-> <<>>, state |-> "begin", semi |-> FALSE,
     peeked |-> NilTok, halted |-> "no"]

\* l.next(): the rune read and the lexer after it
next(l) ==
    IF l.pos >= Len(l.s)
    THEN [r |-> eof, l |-> l]
    ELSE LET r == l.s[l.pos + 1]
             l1 == [l EXCEPT !.pos = @ + RuneLen(r), !.width = RuneLen(r)]
         IN [r |-> r,
             l |-> IF r = "\n"
                   THEN [l1 EXCEPT !.f = AddLine(@, l1.pos + 1)]
                   ELSE l1]

\* l.backup()
backup(l) == [l EXCEPT !.pos = @ - l.width]

\* l.peek()
peek(l) ==
    LET back(n) == [r |-> n.r, l |-> backup(n.l)]
    IN back(next(l))

\* l.ignore()
ignore(l) == [l EXCEPT !.start = l.pos]

\* l.accept(valid)
accept(l, valid) ==
    LET got(n) ==
            IF n.r \in valid THEN [ok |-> TRUE, l |-> n.l]
            ELSE [ok |-> FALSE, l |-> backup(n.l)]
    IN got(next(l))

\* l.acceptRun(valid)
RECURSIVE acceptRun(_, _)
acceptRun(l, valid) ==
    LET got(n) == IF n.r \in valid THEN acceptRun(n.l, valid) ELSE backup(n.l)
    IN got(next(l))

\* l.items <- t
send(l, t) ==
    IF Len(l.items) >= ItemsCap
    THEN [l EXCEPT !.halted = "send on full channel"]
    ELSE [l EXCEPT !.items = Append(@, t)]

\* l.insertEmit(ty, val)
insertEmit(l, ty, val) ==
    LET t == Token(ty, FilePos(l.f, l.pos), val)
    IN send([l EXCEPT !.last = t], t)

\* the position emit gives the token it sends
emitPos(l) == FilePos(l.f, l.pos)

\* l.emit(ty), were every token to leave a statement open to a newline
emitSemiAlways(l, ty) ==
    IF l.start > l.pos
    THEN [l EXCEPT !.halted = "slice bounds out of range"]
    ELSE LET t == Token(ty, emitPos(l), SubSeq(l.s, l.start + 1, l.pos))
             l1 == ignore(send([l EXCEPT !.last = t], t))
         IN [l1 EXCEPT !.semi = TRUE]

\* l.emit(ty)
emit(l, ty) ==
    IF l.start > l.pos
    THEN [l EXCEPT !.halted = "slice bounds out of range"]
    ELSE LET t == Token(ty, emitPos(l), SubSeq(l.s, l.start + 1, l.pos))
             l1 == ignore(send([l EXCEPT !.last = t], t))
         IN [l1 EXCEPT !.semi =
                ty \in {itemRBracket, itemRParen, itemRSquare,
                        itemIdentifier, itemNumber, itemLiteral}]

\* the state function returned by a state function
goto(l, st) == [l EXCEPT !.state = st]

\* l.errorf(format, args...), were it to stop the scan without a token
lexErrorfSilent(l) == goto(l, "nil")

\* l.errorf(format, args...)
lexErrorf(l) == goto(emit(l, itemEOF), "nil")

\* l.begin(), were it to hand the scan back to itself
beginAgain(l) == goto(l, "begin")

\* l.begin()
begin(l) == goto(l, "statement")

\* l.statement()
statement(l) ==
    LET slash(pk) ==
            IF pk.r = "/"
            THEN goto(next(pk.l).l, "comment")
            ELSE goto(emit(pk.l, itemOperator), "statement")
        dispatch(r, l1) ==
            IF r = eof
            THEN goto(emit(IF l1.semi THEN emit(l1, itemSemi) ELSE l1, itemEOF),
                      "statement")
            ELSE IF r = "/"
            THEN slash(peek(l1))
            ELSE IF r = ";"
            THEN goto(emit(l1, itemSemi), "statement")
            ELSE IF IsSpace(r)
            THEN goto(ignore(IF r = "\n" /\ l1.semi THEN emit(l1, itemSemi) ELSE l1),
                      "statement")
            ELSE IF IsDigit(r) \/ r = "."
            THEN goto(backup(l1), "number")
            ELSE IF isLiteralStart(r)
            THEN goto(backup(l1), "literal")
            ELSE IF isIdentifierStart(r)
            THEN goto(backup(l1), "identifier")
            ELSE IF isOperator(r)
            THEN goto(backup(l1), "operator")
            ELSE lexErrorf(l1)
        read(n) == dispatch(n.r, n.l)
    IN read(next(l))

\* the item type operator() gives a rune
operatorType(r) ==
    IF r = "{" THEN itemLBracket
    ELSE IF r = "}" THEN itemRBracket
    ELSE IF r = "(" THEN itemLParen
    ELSE IF r = ")" THEN itemRParen
    ELSE IF r = "[" THEN itemLSquare
    ELSE IF r = "]" THEN itemRSquare
    ELSE itemOperator

\* operator(), were it to emit only what the text holds
operatorNoInsert(l) ==
    LET read(n) == goto(emit(n.l, operatorType(n.r)), "statement")
    IN read(next(l))

\* l.operator()
operator(l) ==
    LET afterParen(pk) ==
            IF pk.r = "("
            THEN goto(insertEmit(pk.l, itemOperator, <<"*">>), "statement")
            ELSE goto(pk.l, "statement")
        emitted(r, l1) ==
            IF r = ")" THEN afterParen(peek(l1)) ELSE goto(l1, "statement")
        read(n) == emitted(n.r, emit(n.l, operatorType(n.r)))
    IN read(next(l))

\* the loop of l.comment(): read up to and including a newline or eof
RECURSIVE commentLoop(_)
commentLoop(l) ==
    LET read(n) == IF n.r # "\n" /\ n.r # eof THEN commentLoop(n.l) ELSE n.l
    IN read(next(l))

\* l.comment()
comment(l) == goto(ignore(backup(commentLoop(l))), "statement")

\* l.number()
number(l) ==
    LET exponent(e) ==
            IF e.ok THEN acceptRun(accept(e.l, {"+", "-"}).l, Digits) ELSE e.l
        fraction(l1) == acceptRun(accept(l1, {"."}).l, Digits)
    IN goto(emit(exponent(accept(fraction(acceptRun(l, Digits)), {"e", "E"})),
                 itemNumber),
            "statement")

\* the loop of l.literal(): read up to and including delim or eof
RECURSIVE literalLoop(_, _)
literalLoop(l, delim) ==
    LET read(n) == IF n.r # delim /\ n.r # eof THEN literalLoop(n.l, delim) ELSE n.l
    IN read(next(l))

\* l.literal()
literal(l) ==
    LET closing(delim, pk) ==
            IF pk.r # delim
            THEN lexErrorf(pk.l)
            ELSE goto(ignore(next(emit(pk.l, itemLiteral)).l), "statement")
        opened(d) == closing(d.r, peek(backup(literalLoop(ignore(d.l), d.r))))
    IN opened(next(l))

\* the loop of l.identifier()
RECURSIVE identifierLoop(_)
identifierLoop(l) ==
    LET read(n) == IF isAlphaNumeric(n.r) THEN identifierLoop(n.l) ELSE n.l
    IN read(next(l))

\* l.identifier()
identifier(l) ==
    goto(emit(backup(identifierLoop(l)), itemIdentifier), "statement")

\* l.state = l.state()
runState(l) ==
    IF l.state = "begin" THEN begin(l)
    ELSE IF l.state = "statement" THEN statement(l)
    ELSE IF l.state = "operator" THEN operator(l)
    ELSE IF l.state = "comment" THEN comment(l)
    ELSE IF l.state = "number" THEN number(l)
    ELSE IF l.state = "literal" THEN literal(l)
    ELSE IF l.state = "identifier" THEN identifier(l)
    ELSE [l EXCEPT !.halted = "nil state function"]

\* the for/select loop of l.Token(): receive an item, or step the state
RECURSIVE pull(_)
pull(l) ==
    IF l.halted # "no" THEN [tok |-> NilTok, l |-> l]
    ELSE IF l.items # <<>>
    THEN [tok |-> Head(l.items), l |-> [l EXCEPT !.items = Tail(@)]]
    ELSE pull(runState(l))

\* l.Token()
LexToken(l) ==
    IF l.peeked # NilTok
    THEN [tok |-> l.peeked, l |-> [l EXCEPT !.peeked = NilTok]]
    ELSE pull(l)

\* l.Peek()
LexPeek(l) ==
    LET keep(t) == [tok |-> t.tok, l |-> [t.l EXCEPT !.peeked = t.tok]]
    IN IF l.peeked = NilTok THEN keep(LexToken(l)) ELSE [tok |-> l.peeked, l |-> l]

(***************************************************************************)
(* ErrorVector: the diagnostic list of the parser                          *)
(***************************************************************************)

\* h.Error(pos, msg): record one diagnostic
ErrorVectorError(errs, pos, msg) == Append(errs, [pos |-> pos, msg |-> msg])

\* h.ErrorCount(): the number of diagnostics recorded
ErrorCount(errs) == Len(errs)

\* insert a diagnostic into a list sorted by position, after its equals
RECURSIVE insertSorted(_, _)
insertSorted(list, e) ==
    IF list = <<>> THEN <<e>>
    ELSE IF e.pos.Offset < Head(list).pos.Offset THEN <<e>> \o list
    ELSE <<Head(list)>> \o insertSorted(Tail(list), e)

\* the diagnostics sorted by position, in the order recorded where equal
RECURSIVE sortErrors(_)
sortErrors(errs) ==
    IF errs = <<>> THEN <<>>
    ELSE insertSorted(sortErrors(SubSeq(errs, 1, Len(errs) - 1)), errs[Len(errs)])

\* drop every diagnostic at the position of the one before it
RECURSIVE removeMultiples(_)
removeMultiples(list) ==
    IF Len(list) < 2 THEN list
    ELSE IF list[1].pos = list[2].pos
    THEN removeMultiples(<<list[1]>> \o SubSeq(list, 3, Len(list)))
    ELSE <<list[1]>> \o removeMultiples(Tail(list))

\* h.GetErrorList(Sorted), were it to sort and keep every diagnostic
GetErrorListAll(errs) == sortErrors(errs)

\* h.GetErrorList(Sorted): sorted by position, one diagnostic per position
GetErrorList(errs) == removeMultiples(sortErrors(errs))

(***************************************************************************)
(* AST nodes                                                               *)
(***************************************************************************)

\* a nil Expr
NilExpr == [type |-> "nil"]

Ident(NamePos, Name) == [type |-> "Ident", NamePos |-> NamePos, Name |-> Name]

BasicLit(ValuePos, Kind, Value) ==
    [type |-> "BasicLit", ValuePos |-> ValuePos, Kind |-> Kind, Value |-> Value]

ParenExpr(Lparen, X, Rparen) ==
    [type |-> "ParenExpr", Lparen |-> Lparen, X |-> X, Rparen |-> Rparen]

CallExpr(Fun, Lparen, Args, Rparen) ==
    [type |-> "CallExpr", Fun |-> Fun, Lparen |-> Lparen, Args |-> Args,
     Rparen |-> Rparen]

BinaryExpr(X, OpPos, Op, Y) ==
    [type |-> "BinaryExpr", X |-> X, OpPos |-> OpPos, Op |-> Op, Y |-> Y]

\* x.Pos()
RECURSIVE Pos(_)
Pos(x) ==
    IF x.type = "Ident" THEN x.NamePos
    ELSE IF x.type = "BasicLit" THEN x.ValuePos
    ELSE IF x.type = "ParenExpr" THEN x.Lparen
    ELSE IF x.type = "CallExpr" THEN Pos(x.Fun)
    ELSE Pos(x.X)

RECURSIVE End(_)

\* x.End(), were a ParenExpr and a CallExpr to end where their last child ends
EndOfLastChild(x) ==
    IF x.type = "Ident" THEN x.NamePos + Len(x.Name)
    ELSE IF x.type = "BasicLit" THEN x.ValuePos + Len(x.Value)
    ELSE IF x.type = "ParenExpr" THEN End(x.X)
    ELSE IF x.type = "CallExpr"
    THEN IF x.Args = <<>> THEN End(x.Fun) ELSE End(x.Args[Len(x.Args)])
    ELSE End(x.Y)

\* x.End()
End(x) ==
    IF x.type = "Ident" THEN x.NamePos + Len(x.Name)
    ELSE IF x.type = "BasicLit" THEN x.ValuePos + Len(x.Value)
    ELSE IF x.type = "ParenExpr" THEN x.Rparen + 1
    ELSE IF x.type = "CallExpr" THEN x.Rparen + 1
    ELSE End(x.Y)

(***************************************************************************)
(* parser                                                                  *)
(***************************************************************************)

\* p.levels, as newParser fills it: levels[0] is what expr() calls
parserLevels ==
    << [fn |-> "binary", n |-> 0, ops |-> {"^"}],
       [fn |-> "binary", n |-> 1, ops |-> {"*", "/"}],
       [fn |-> "binary", n |-> 2, ops |-> {"+", "-"}],
       [fn |-> "factor"] >>

\* newParser(f, fs, l): tokf and fset are the lexer's file (l.f); panic
\* records a panic raised by the parser itself
newParser(l) ==
    [lex |-> l, errs |-> <<>>, levels |-> parserLevels, panic |-> "no"]

\* a parser function's results: (Expr, bool) and the parser after the call
Result(x, ok, p) == [x |-> x, ok |-> ok, p |-> p]

\* what a call of the parser's lexer leaves: the token and the parser
withLex(p, r) == [tok |-> r.tok, ok |-> TRUE, p |-> [p EXCEPT !.lex = r.l]]

\* p.lex.Peek(), as the parser calls it
parserPeek(p) == withLex(p, LexPeek(p.lex))

\* p.lex.Token(), as the parser calls it to consume the lookahead
parserToken(p) == withLex(p, LexToken(p.lex))

\* p.errorf(tok, f, args...): the message is the format and its argument
errorf(p, tok, format, arg) ==
    LET pos == IF tok # NilTok THEN Position(p.lex.f, tok.pos) ELSE NoPosition
    IN [p EXCEPT !.errs = ErrorVectorError(@, pos, [format |-> format, arg |-> arg])]

\* p.errorf(la, f), la being what p.lex.Peek() returned
errorfAt(la, format, withArg) ==
    errorf(la.p, la.tok, format, IF withArg THEN la.tok ELSE NilTok)

\* p.errorf(p.lex.Peek(), f), were the parser to skip the offending token
errorfAtPeekSkip(p, format, withArg) ==
    parserToken(errorfAt(parserPeek(p), format, withArg)).p

\* p.errorf(p.lex.Peek(), f): a diagnostic at the lookahead token
errorfAtPeek(p, format, withArg) == errorfAt(parserPeek(p), format, withArg)

\* opToken(t)
opToken(t) ==
    IF t.val = <<"^">> THEN "XOR"
    ELSE IF t.val = <<"+">> THEN "ADD"
    ELSE IF t.val = <<"-">> THEN "SUB"
    ELSE IF t.val = <<"*">> THEN "MUL"
    ELSE IF t.val = <<"/">> THEN "QUO"
    ELSE "illegal token"

\* the (nil, false) of consumeTok and consumeAnyOf
noToken(p) == [tok |-> NilTok, ok |-> FALSE, p |-> p]

\* p.consumeTok(ty), after la := p.lex.Peek()
consumeTokAt(la, ty) ==
    IF la.tok = NilTok \/ la.tok.kind # ty THEN noToken(la.p) ELSE parserToken(la.p)

\* p.consumeTok(ty)
consumeTok(p, ty) == consumeTokAt(parserPeek(p), ty)

\* p.consumeAnyOf(ops), after la := p.lex.Peek()
consumeAnyOfAt(la, ops) ==
    IF la.tok = NilTok \/ la.tok.kind # itemOperator
    THEN noToken(la.p)
    ELSE IF la.tok.val # <<>> /\ la.tok.val[1] \in ops
    THEN parserToken(la.p)
    ELSE noToken(la.p)

\* p.consumeAnyOf(ops)
consumeAnyOf(p, ops) == consumeAnyOfAt(parserPeek(p), ops)

\* &Ident{t.pos, t.val}, t := p.lex.Token()
identOf(t) == Result(Ident(t.tok.pos, t.tok.val), TRUE, t.p)

\* p.ident(), after la := p.lex.Peek()
identAt(la) ==
    IF la.tok # NilTok /\ la.tok.kind = itemIdentifier
    THEN identOf(parserToken(la.p))
    ELSE Result(NilExpr, FALSE, la.p)

\* p.ident()
parserIdent(p) == identAt(parserPeek(p))

\* &BasicLit{t.pos, token.FLOAT, t.val}, t := p.lex.Token()
numOf(t) == Result(BasicLit(t.tok.pos, "FLOAT", t.tok.val), TRUE, t.p)

\* p.num(), after la := p.lex.Peek()
numAt(la) ==
    IF la.tok # NilTok /\ la.tok.kind = itemNumber
    THEN numOf(parserToken(la.p))
    ELSE Result(NilExpr, FALSE, la.p)

\* p.num()
parserNum(p) == numAt(parserPeek(p))

RECURSIVE callLevel(_, _)
RECURSIVE binaryLoop(_, _, _, _)
RECURSIVE callLoop(_, _)

\* p.expr()
expr(p) == callLevel(p, 0)

\* the body of binaryLevelGen's for loop, were it to fold to the right
binaryFoldRight(n, ops, lhs, op, rhs) ==
    IF ~rhs.ok THEN Result(lhs, FALSE, rhs.p)
    ELSE IF opToken(op) = "illegal token"
    THEN Result(lhs, FALSE, [rhs.p EXCEPT !.panic = "opToken: illegal token"])
    ELSE IF lhs.type = "BinaryExpr"
    THEN binaryLoop(n, ops,
                    BinaryExpr(lhs.X, lhs.OpPos, lhs.Op,
                               BinaryExpr(lhs.Y, op.pos, opToken(op), rhs.x)),
                    rhs.p)
    ELSE binaryLoop(n, ops, BinaryExpr(lhs, op.pos, opToken(op), rhs.x), rhs.p)

\* the body of binaryLevelGen's for loop: rhs is what next() returned
binaryFold(n, ops, lhs, op, rhs) ==
    IF ~rhs.ok THEN Result(lhs, FALSE, rhs.p)
    ELSE IF opToken(op) = "illegal token"
    THEN Result(lhs, FALSE, [rhs.p EXCEPT !.panic = "opToken: illegal token"])
    ELSE binaryLoop(n, ops, BinaryExpr(lhs, op.pos, opToken(op), rhs.x), rhs.p)

\* the condition of binaryLevelGen's for loop: c is what consumeAnyOf returned
binaryNext(n, ops, lhs, c) ==
    IF ~c.ok THEN Result(lhs, TRUE, c.p)
    ELSE binaryFold(n, ops, lhs, c.tok, callLevel(c.p, n + 1))

\* the for loop of binaryLevelGen: fold operands of level n+1 to the left
binaryLoop(n, ops, lhs, p) == binaryNext(n, ops, lhs, consumeAnyOf(p, ops))

\* binaryLevelGen after its first next(): lhs is what it returned
binaryFirst(n, ops, lhs) ==
    IF ~lhs.ok THEN lhs ELSE binaryLoop(n, ops, lhs.x, lhs.p)

\* binaryLevelGen after la := p.lex.Peek()
binaryLevelAt(n, la, ops) ==
    IF la.tok = NilTok THEN Result(NilExpr, TRUE, la.p)
    ELSE IF n + 1 >= Len(la.p.levels)
    THEN Result(NilExpr, FALSE,
                [la.p EXCEPT !.panic = "binaryLevelGen: illegal level"])
    ELSE binaryFirst(n, ops, callLevel(la.p, n + 1))

\* the closure binaryLevelGen(n, p, ops) returns
binaryLevelGen(n, p, ops) == binaryLevelAt(n, parserPeek(p), ops)

\* factorClose, were a missing ')' let through
factorCloseLenient(lparen, e, r) ==
    Result(ParenExpr(lparen.pos, e.x, IF r.ok THEN r.tok.pos ELSE 0), TRUE, r.p)

\* p.factor() after '(' and the expression: r is what consumeTok(')') returned
factorClose(lparen, e, r) ==
    IF ~r.ok
    THEN Result(NilExpr, FALSE, errorfAtPeek(r.p, "expected ')'", FALSE))
    ELSE Result(ParenExpr(lparen.pos, e.x, r.tok.pos), TRUE, r.p)

\* the parenthesised branch of p.factor(): e is what p.expr() returned
factorParen(lparen, e) ==
    IF ~e.ok THEN e ELSE factorClose(lparen, e, consumeTok(e.p, itemRParen))

\* ce.Args = append(ce.Args, arg), with the argument put first instead
callPrepend(ce, arg) == [ce EXCEPT !.Args = <<arg>> \o @]

\* ce.Args = append(ce.Args, arg)
callAppend(ce, arg) == [ce EXCEPT !.Args = Append(@, arg)]

\* p.call() at ')': t is what consumeTok(')') returned after an argument
callClose(ce, t) ==
    IF t.ok THEN Result([ce EXCEPT !.Rparen = t.tok.pos], TRUE, t.p)
    ELSE Result(NilExpr, FALSE,
                errorfAtPeek(t.p, "call: expected ',' or ')'", TRUE))

\* p.call() after an argument: c is what consumeAnyOf(",") returned
callMore(ce, c) ==
    IF c.ok THEN callLoop(c.p, ce) ELSE callClose(ce, consumeTok(c.p, itemRParen))

\* p.call() at an argument: arg is what p.expr() returned
callArg(ce, arg) ==
    IF ~arg.ok
    THEN Result(ce, FALSE, errorfAtPeek(arg.p, "call: expected expr arg", TRUE))
    ELSE callMore(callAppend(ce, arg.x), consumeAnyOf(arg.p, {","}))

\* the for loop of p.call(): one argument, then ',' or ')'
callLoop(p, ce) == callArg(ce, expr(p))

\* p.call() after '(': t is what consumeTok(')') returned
callOpen(ce, t) ==
    IF t.ok THEN Result([ce EXCEPT !.Rparen = t.tok.pos], TRUE, t.p)
    ELSE callLoop(t.p, ce)

\* p.call(fun, lparen)
call(p, fun, lparen) ==
    callOpen(CallExpr(fun, lparen.pos, <<>>, 0), consumeTok(p, itemRParen))

\* p.factor() after an identifier: t is what consumeTok('(') returned
factorCall(id, t) ==
    IF t.ok THEN call(t.p, id.x, t.tok) ELSE Result(id.x, TRUE, t.p)

\* p.factor() after p.num() failed, were it to take any token as an operand
factorIdentBad(id) ==
    IF id.ok THEN factorCall(id, consumeTok(id.p, itemLParen))
    ELSE Result([type |-> "BadExpr"], TRUE, parserToken(id.p).p)

\* p.factor() after p.num() failed: id is what p.ident() returned
factorIdent(id) ==
    IF id.ok THEN factorCall(id, consumeTok(id.p, itemLParen))
    ELSE Result(NilExpr, FALSE, errorfAtPeek(id.p, "unexpected token", FALSE))

\* p.factor() without '(': nm is what p.num() returned
factorNum(nm) == IF nm.ok THEN nm ELSE factorIdent(parserIdent(nm.p))

\* p.factor(): lp is what consumeTok('(') returned
factorStart(lp) ==
    IF lp.ok THEN factorParen(lp.tok, expr(lp.p)) ELSE factorNum(parserNum(lp.p))

\* p.factor()
factor(p) == factorStart(consumeTok(p, itemLParen))

\* p.levels[i]()
callLevel(p, i) ==
    LET lv == p.levels[i + 1]
    IN IF lv.fn = "factor" THEN factor(p) ELSE binaryLevelGen(lv.n, p, lv.ops)

\* p.Parse() after the expression: la is what p.lex.Peek() returned
parseEndAt(e, la) ==
    IF la.tok = NilTok
    THEN Result(e.x, FALSE, [la.p EXCEPT !.panic = "missing semicolon"])
    ELSE IF la.tok.kind # itemSemi
    THEN Result(NilExpr, FALSE,
                errorf(la.p, la.tok, "expected end-of-equation", la.tok))
    ELSE Result(e.x, e.ok, parserToken(la.p).p)

\* p.Parse(): e is what p.expr() returned
parseEnd(e) == IF ~e.ok THEN e ELSE parseEndAt(e, parserPeek(e.p))

\* p.Parse()
parserParse(p) == parseEnd(expr(p))

(***************************************************************************)
(* Parse(name, eqn)                                                        *)
(***************************************************************************)

\* the text Parse scans: eqn, with ';' appended unless its last rune is ';'
normalize(eqn) ==
    IF eqn = <<>> \/ eqn[Len(eqn)] # ";" THEN eqn \o <<";">> ELSE eqn

\* the file set after fset.AddFile(name, fset.Base(), size): its base moves
\* past the file
fileSetAfterAdd(fset, size) == [base |-> fset.base + size + 1]

\* the parser Parse constructs
parseSetup(name, eqn) ==
    LET text == normalize(eqn)
        f == AddFile(NewFileSet, name, Len(text))
    IN newParser(newLexer(text, f))

\* whether the goroutine died instead of returning
aborted(p) == p.panic # "no" \/ p.lex.halted # "no"

\* parseReturn, were the tree p.Parse() built returned with the diagnostics
parseReturnKeepsTree(r) ==
    IF ErrorCount(r.p.errs) # 0
    THEN [ast |-> r.x, errType |-> "ErrorList", err |-> GetErrorList(r.p.errs)]
    ELSE IF ~r.ok
    THEN [ast |-> NilExpr, errType |-> "errorString", err |-> <<>>]
    ELSE [ast |-> r.x, errType |-> "nil", err |-> <<>>]

\* what Parse returns, given the results of p.Parse(): errType is the
\* dynamic type of the error, "nil" for a nil error
parseReturn(r) ==
    IF ErrorCount(r.p.errs) # 0
    THEN [ast |-> NilExpr, errType |-> "ErrorList", err |-> GetErrorList(r.p.errs)]
    ELSE IF ~r.ok
    THEN [ast |-> NilExpr, errType |-> "errorString", err |-> <<>>]
    ELSE [ast |-> r.x, errType |-> "nil", err |-> <<>>]

(***************************************************************************)
(* Trees without positions, to state what a text parses to                 *)
(***************************************************************************)
SIdent(n) == [type |-> "Ident", Name |-> n]
SLit(v) == [type |-> "BasicLit", Kind |-> "FLOAT", Value |-> v]
SParen(x) == [type |-> "ParenExpr", X |-> x]
SCall(fun, args) == [type |-> "CallExpr", Fun |-> fun, Args |-> args]
SBin(x, op, y) == [type |-> "BinaryExpr", X |-> x, Op |-> op, Y |-> y]

\* a tree with its positions dropped
RECURSIVE Shape(_)
Shape(x) ==
    IF x.type = "Ident" THEN SIdent(x.Name)
    ELSE IF x.type = "BasicLit" THEN [type |-> "BasicLit", Kind |-> x.Kind, Value |-> x.Value]
    ELSE IF x.type = "ParenExpr" THEN SParen(Shape(x.X))
    ELSE IF x.type = "CallExpr"
    THEN SCall(Shape(x.Fun), [i \in 1..Len(x.Args) |-> Shape(x.Args[i])])
    ELSE IF x.type = "BinaryExpr" THEN SBin(Shape(x.X), x.Op, Shape(x.Y))
    ELSE x

\* the nodes of a tree
RECURSIVE Nodes(_)
Nodes(x) ==
    IF x.type = "ParenExpr" THEN {x} \cup Nodes(x.X)
    ELSE IF x.type = "CallExpr"
    THEN {x} \cup Nodes(x.Fun) \cup UNION {Nodes(x.Args[i]) : i \in 1..Len(x.Args)}
    ELSE IF x.type = "BinaryExpr" THEN {x} \cup Nodes(x.X) \cup Nodes(x.Y)
    ELSE {x}

\* every token a lexer still delivers, up to and including its end marker
RECURSIVE scanAll(_)
scanAll(l) ==
    LET t == LexToken(l)
    IN IF t.tok.kind \in {itemEOF, "nil"} THEN <<t.tok>>
       ELSE <<t.tok>> \o scanAll(t.l)

\* the tokens of an equation text, as Parse's lexer delivers them
Tokens(eqn) ==
    scanAll(newLexer(normalize(eqn), AddFile(NewFileSet, "", Len(normalize(eqn)))))

(***************************************************************************)
(* Inputs                                                                  *)
(***************************************************************************)

\* the longest equation text of the exhaustive inputs
MaxLen == 3

\* the runes of the exhaustive inputs: a letter, a digit, a dot, the
\* operators of the three levels, slash, parens, comma, terminator,
\* newline, blank and quote
Runes == {"a", "2", ".", "+", "*", "^", "/", "(", ")", ",", ";", "\n", " ", "\""}

\* every text of length n over a set of runes
RECURSIVE TextsOfLen(_, _)
TextsOfLen(runes, n) ==
    IF n = 0 THEN {<<>>}
    ELSE {<<r>> \o t : r \in runes, t \in TextsOfLen(runes, n - 1)}

\* every text of length at most n over a set of runes
TextsUpTo(runes, n) == UNION {TextsOfLen(runes, k) : k \in 0..n}

ShortTexts == TextsUpTo(Runes, MaxLen)

\* factors, each with the tree it stands for
Factors ==
    { [text |-> <<"a">>, shape |-> SIdent(<<"a">>)],
      [text |-> <<"2">>, shape |-> SLit(<<"2">>)],
      [text |-> <<"3", ".", "5">>, shape |-> SLit(<<"3", ".", "5">>)],
      [text |-> <<"(", "b", ")">>, shape |-> SParen(SIdent(<<"b">>))],
      [text |-> <<"f", "(", ")">>, shape |-> SCall(SIdent(<<"f">>), <<>>)] }

BinOps == {"+", "-", "*", "/", "^"}

\* f1 op f2 op f3
OpChains ==
    { [f1 |-> f1, o1 |-> o1, f2 |-> f2, o2 |-> o2, f3 |-> f3,
       text |-> f1.text \o <<o1>> \o f2.text \o <<o2>> \o f3.text] :
      f1 \in Factors, o1 \in BinOps, f2 \in Factors, o2 \in BinOps, f3 \in Factors }

\* the examples of the specification, with digits and letters as written
Examples ==
    { <<"2", "+", "3", "*", "4">>,
      <<"2", "^", "3", "^", "2">>,
      <<"M", "I", "N", "(", "a", ",", "b", ")", "+", "c">>,
      <<"(", "a", ")", "(", "b", ")">>,
      <<"a", "+", "(", "b">> }

\* parenthesised factors
ParenFactors ==
    { [text |-> <<"(", "a", ")">>, shape |-> SParen(SIdent(<<"a">>))],
      [text |-> <<"(", "b", ")">>, shape |-> SParen(SIdent(<<"b">>))],
      [text |-> <<"(", "2", ")">>, shape |-> SParen(SLit(<<"2">>))] }

\* what may stand between two parenthesised factors without being a token
Gaps == {<<>>, <<" ">>, <<" ", " ">>}

\* (x)(y), with blanks between the factors or none
ParenPairs ==
    { [f1 |-> f1, f2 |-> f2, text |-> f1.text \o g \o f2.text] :
      f1 \in ParenFactors, g \in Gaps, f2 \in ParenFactors }

\* the most arguments of a call of the inputs
MaxArgs == 2

\* argument expressions, each with the tree it stands for
ArgExprs ==
    { [text |-> <<"a">>, shape |-> SIdent(<<"a">>)],
      [text |-> <<"2">>, shape |-> SLit(<<"2">>)],
      [text |-> <<"a", "+", "b">>,
       shape |-> SBin(SIdent(<<"a">>), "ADD", SIdent(<<"b">>))],
      [text |-> <<"(", "a", ")">>, shape |-> SParen(SIdent(<<"a">>))],
      [text |-> <<"g", "(", "b", ")">>,
       shape |-> SCall(SIdent(<<"g">>), <<SIdent(<<"b">>)>>)] }

\* every argument list of n arguments
RECURSIVE ArgListsOfLen(_)
ArgListsOfLen(n) ==
    IF n = 0 THEN {<<>>}
    ELSE {<<a>> \o as : a \in ArgExprs, as \in ArgListsOfLen(n - 1)}

ArgLists == UNION {ArgListsOfLen(n) : n \in 0..MaxArgs}

\* the texts of the arguments, separated by commas
RECURSIVE joinArgs(_)
joinArgs(as) ==
    IF as = <<>> THEN <<>>
    ELSE IF Len(as) = 1 THEN as[1].text
    ELSE as[1].text \o <<",">> \o joinArgs(Tail(as))

Callees == {<<"f">>, <<"M", "I", "N">>}

\* callee(arg, ..., arg), with the tree it stands for
Calls ==
    { [text |-> fn \o <<"(">> \o joinArgs(as) \o <<")">>,
       shape |-> SCall(SIdent(fn), [i \in 1..Len(as) |-> as[i].shape])] :
      fn \in Callees, as \in ArgLists }

\* a call, and a call plus c
CallCases ==
    Calls \cup
    { [text |-> c.text \o <<"+", "c">>,
       shape |-> SBin(c.shape, "ADD", SIdent(<<"c">>))] : c \in Calls }

\* factors whose '(' is never closed
OpenFactors == {<<"(", "b">>, <<"f", "(", "a">>, <<"(", "(", "a", ")">>, <<"f", "(", "(", "a", ")">>}

\* a factor, an operator and an unclosed factor, and what may follow it
OpenTexts ==
    { f.text \o <<o>> \o u \o z :
      f \in Factors, o \in BinOps, u \in OpenFactors,
      z \in {<<>>, <<";">>, <<"\n">>, <<";", ")">>} }

\* texts whose leaves are longer than the punctuation that follows them
LongLeafTexts ==
    { <<"(", "3", ".", "5", ")">>,
      <<"r", "a", "t", "e", "+", "b">>,
      <<"r", "a", "t", "e", "(", ")">>,
      <<"(", "a", "+", "2", "5", "0", ")">> }

\* a number that ends in its exponent mark, then a sign and digits
ExponentTexts ==
    { <<"2", "e", " ", "+", "3">>,
      <<"2", "e", "+", "3">>,
      <<"2", "E", "\n", "-", "3">> }

\* texts with '{' and '}', outside string literals and comments
BraceTexts ==
    { <<"{">>, <<"}">>, <<"{", "}">>, <<"{", "a", "}">>,
      <<"a", "{", "b">>, <<"a", "}">>, <<"a", "+", "{", "b", "}">> }

\* texts with a sign or a square bracket where an operand is due
OperandTexts ==
    { <<"-", "a">>, <<"[">>, <<"a", "[", "2", "]">>, <<"a", "+", "-", "b">>,
      <<"f", "(", "-", "a", ")">>, <<"f", "(", "a", ",", "[", ")">>, <<"(", "-", "2", ")">> }

Inputs ==
    ExponentTexts \cup BraceTexts \cup OperandTexts \cup
    ShortTexts \cup {c.text : c \in OpChains} \cup Examples
    \cup {c.text : c \in ParenPairs} \cup {c.text : c \in CallCases}
    \cup OpenTexts \cup LongLeafTexts

Names == {"births"}

(***************************************************************************)
(* The Parse call, in the three steps of its body                          *)
(***************************************************************************)

\* the zero values the variables hold before the call fills them
NoFileSet == [base |-> 0]
NoParser == newParser(newLexer(<<>>, [name |-> "", base |-> 0, size |-> 0, lines |-> <<0>>]))
NoResult == [x |-> NilExpr, ok |-> FALSE]
NoReturn == [ast |-> NilExpr, errType |-> "nil", err |-> <<>>]
NoCall ==
    [set |-> FALSE, name |-> "", eqn |-> <<>>, ret |-> NoReturn, between |-> FALSE]

\* a nil *File, and a nil *xmile.Display
NilFile == [kind |-> "nil"]
NilDisplay == [kind |-> "nil"]

\* no ReadFile call was made
NoReadFile ==
    [contents |-> [ok |-> FALSE], f |-> NilFile, m |-> 0, v |-> 0,
     ret |-> [file |-> NilFile, err |-> "none"]]

\* no Inspect call was made
NoInspect ==
    [cb |-> [kind |-> "none"], stack |-> <<>>, visited |-> <<>>,
     outs |-> <<>>, fnNameNext |-> FALSE]

\* no lexer is driven apart from the one of the Parse call
NoLexCalls ==
    /\ lx = NoParser.lex
    /\ lexCall = "none"
    /\ steps = 0
    /\ out = <<>>
    /\ seen = NilTok

Init ==
    /\ argName \in Names
    /\ argEqn \in Inputs
    /\ pc = "call"
    /\ fileSet = NoFileSet
    /\ parser = NoParser
    /\ parsed = NoResult
    /\ ret = NoReturn
    /\ prev = NoCall
    /\ NoLexCalls
    /\ insp = NoInspect
    /\ rf = NoReadFile

\* Parse, lines 20-27: normalise the text, make the file set, the file,
\* the lexer and the parser
ParseBegin ==
    /\ pc = "call"
    /\ parser' = parseSetup(argName, argEqn)
    /\ fileSet' = fileSetAfterAdd(NewFileSet, Len(normalize(argEqn)))
    /\ pc' = "parse"
    /\ UNCHANGED <<argName, argEqn, parsed, ret, prev>>
    /\ UNCHANGED lexVars
    /\ UNCHANGED rf
    /\ UNCHANGED insp

\* Parse, line 28: ast, ok := p.Parse()
ParseRun ==
    /\ pc = "parse"
    /\ LET returned(r) ==
               /\ parser' = r.p
               /\ parsed' = [x |-> r.x, ok |-> r.ok]
               /\ pc' = IF aborted(r.p) THEN "panic" ELSE "check"
       IN returned(parserParse(parser))
    /\ UNCHANGED <<argName, argEqn, fileSet, ret, prev>>
    /\ UNCHANGED lexVars
    /\ UNCHANGED rf
    /\ UNCHANGED insp

\* Parse, lines 29-35: diagnostics, or the tree
ParseReturn ==
    /\ pc = "check"
    /\ ret' = parseReturn([x |-> parsed.x, ok |-> parsed.ok, p |-> parser])
    /\ pc' = "done"
    /\ UNCHANGED <<argName, argEqn, fileSet, parser, parsed, prev>>
    /\ UNCHANGED lexVars
    /\ UNCHANGED rf
    /\ UNCHANGED insp

Next == ParseBegin \/ ParseRun \/ ParseReturn

Spec == Init /\ [][Next]_vars

(***************************************************************************)
(* Repeated calls: Parse called again and again, one earlier call kept     *)
(***************************************************************************)

\* the longest equation text of the repeated calls
MaxCallLen == 2

CallRunes == {"a", "(", ")"}

CallInputs == TextsUpTo(CallRunes, MaxCallLen)

CallNames == {"births", "deaths"}

InitCalls ==
    /\ argName \in CallNames
    /\ argEqn \in CallInputs
    /\ pc = "call"
    /\ fileSet = NoFileSet
    /\ parser = NoParser
    /\ parsed = NoResult
    /\ ret = NoReturn
    /\ prev = NoCall
    /\ NoLexCalls
    /\ insp = NoInspect
    /\ rf = NoReadFile

\* the caller, after Parse returned: it keeps the call just made or the one
\* it kept before, and calls Parse again.  The locals of the finished call
\* are dropped; the file set stays on the heap.
NextCall ==
    /\ pc = "done"
    /\ \E n \in CallNames, e \in CallInputs :
         /\ argName' = n
         /\ argEqn' = e
    /\ \/ prev' = [set |-> TRUE, name |-> argName, eqn |-> argEqn, ret |-> ret,
                   between |-> FALSE]
       \/ prev.set /\ prev' = [prev EXCEPT !.between = TRUE]
    /\ pc' = "call"
    /\ parser' = NoParser
    /\ parsed' = NoResult
    /\ ret' = NoReturn
    /\ UNCHANGED fileSet
    /\ UNCHANGED lexVars
    /\ UNCHANGED rf
    /\ UNCHANGED insp

NextCalls == ParseBegin \/ ParseRun \/ ParseReturn \/ NextCall

SpecCalls == InitCalls /\ [][NextCalls]_vars

(***************************************************************************)
(* The lexer alone: Peek() and Token() called in any order, and the for    *)
(* loop of Token() taken one iteration at a time                           *)
(***************************************************************************)

\* the longest text given to the lexer driven alone
MaxLexLen == 3

\* the most state functions one call is let run
MaxSteps == 8

LexRunes == {"a", "2", "+", "(", ")", "/", ";", "\n", "\""}

LexInputs == TextsUpTo(LexRunes, MaxLexLen)

\* the variables of the Parse call, when no Parse call is made
parseVars == <<argName, argEqn, pc, fileSet, parser, parsed, ret, prev>>

InitLex ==
    /\ argName \in Names
    /\ argEqn \in LexInputs
    /\ pc = "lex"
    /\ fileSet = NoFileSet
    /\ parser = NoParser
    /\ parsed = NoResult
    /\ ret = NoReturn
    /\ prev = NoCall
    /\ lx = parseSetup(argName, argEqn).lex
    /\ lexCall = "none"
    /\ steps = 0
    /\ out = <<>>
    /\ seen = NilTok
    /\ insp = NoInspect
    /\ rf = NoReadFile

\* the end marker was returned by Token(): the caller asks for no more
LexDone == out # <<>> /\ out[Len(out)].kind = itemEOF

\* Token(), lines 358-362: the token kept by Peek() is handed out
tokenTake(l) == [l EXCEPT !.peeked = NilTok]

\* Token(), line 366: an item is received from l.items
receive(l) == [l EXCEPT !.items = Tail(@)]

\* Peek(), were it to hand the token on without keeping it
peekForget(l, item) == l

\* Peek(), line 351: l.peeked = l.Token()
peekKeep(l, item) == [l EXCEPT !.peeked = item]

\* a call of l.Token(): it returns the kept token, or enters its loop
CallToken ==
    /\ pc = "lex" /\ lexCall = "none" /\ ~LexDone
    /\ IF lx.peeked # NilTok
       THEN /\ out' = Append(out, lx.peeked)
            /\ lx' = tokenTake(lx)
            /\ seen' = NilTok
            /\ lexCall' = "none"
       ELSE /\ lexCall' = "Token"
            /\ UNCHANGED <<lx, out, seen>>
    /\ steps' = 0
    /\ UNCHANGED parseVars
    /\ UNCHANGED rf
    /\ UNCHANGED insp

\* a call of l.Peek(): it returns the kept token, or calls Token()
CallPeek ==
    /\ pc = "lex" /\ lexCall = "none" /\ ~LexDone
    /\ IF lx.peeked # NilTok
       THEN /\ seen' = lx.peeked
            /\ lexCall' = "none"
       ELSE /\ lexCall' = "Peek"
            /\ seen' = seen
    /\ steps' = 0
    /\ UNCHANGED <<lx, out>>
    /\ UNCHANGED parseVars
    /\ UNCHANGED rf
    /\ UNCHANGED insp

\* the for loop of Token(), case item := <-l.items: the call returns
Receive ==
    /\ pc = "lex" /\ lexCall # "none" /\ lx.halted = "no" /\ lx.items # <<>>
    /\ IF lexCall = "Token"
       THEN /\ out' = Append(out, Head(lx.items))
            /\ lx' = receive(lx)
            /\ seen' = NilTok
       ELSE /\ lx' = peekKeep(receive(lx), Head(lx.items))
            /\ seen' = Head(lx.items)
            /\ out' = out
    /\ lexCall' = "none"
    /\ steps' = steps
    /\ UNCHANGED parseVars
    /\ UNCHANGED rf
    /\ UNCHANGED insp

\* the default branch, were select to take it with a token ready
StateStepAnytime ==
    /\ pc = "lex" /\ lexCall # "none" /\ lx.halted = "no"
    /\ steps < MaxSteps

\* the for loop of Token() reaches its default branch: nothing to receive
StateStepReady ==
    /\ pc = "lex" /\ lexCall # "none" /\ lx.halted = "no" /\ lx.items = <<>>
    /\ steps < MaxSteps

\* the for loop of Token(), default: l.state = l.state()
StateStep ==
    /\ StateStepReady
    /\ lx' = runState(lx)
    /\ steps' = steps + 1
    /\ UNCHANGED <<lexCall, out, seen>>
    /\ UNCHANGED parseVars
    /\ UNCHANGED rf
    /\ UNCHANGED insp

NextLex == CallToken \/ CallPeek \/ Receive \/ StateStep

SpecLex == InitLex /\ [][NextLex]_vars

\* the default branch as the count of state functions shows it: a state
\* function always returns, so the branch is taken whenever it is reached
StateStepCounted == StateStepReady /\ steps' = steps + 1

\* Token() is one goroutine running its for loop: an iteration that can be
\* taken is taken
SpecLexFair ==
    /\ InitLex
    /\ [][NextLex]_vars
    /\ WF_steps(StateStepCounted)
    /\ WF_vars(Receive)

(***************************************************************************)
(* Inspect, and refs, which drives it over a parsed equation               *)
(***************************************************************************)

\* the children of a node, in source order
childrenOf(n) ==
    IF n.type = "ParenExpr" THEN <<n.X>>
    ELSE IF n.type = "CallExpr" THEN <<n.Fun>> \o n.Args
    ELSE IF n.type = "BinaryExpr" THEN <<n.X, n.Y>>
    ELSE <<>>

\* strings.ToLower, on the letters of the model
ToLower(r) ==
    IF r = "A" THEN "a" ELSE IF r = "B" THEN "b" ELSE IF r = "E" THEN "e"
    ELSE IF r = "I" THEN "i" ELSE IF r = "M" THEN "m" ELSE IF r = "N" THEN "n"
    ELSE IF r = "R" THEN "r" ELSE r

\* strings.Replace(n, `\n`, "_", -1): a backslash and an n become "_"
RECURSIVE replaceEscapedNewline(_)
replaceEscapedNewline(n) ==
    IF n = <<>> THEN <<>>
    ELSE IF Len(n) >= 2 /\ n[1] = "\\" /\ n[2] = "n"
    THEN <<"_">> \o replaceEscapedNewline(SubSeq(n, 3, Len(n)))
    ELSE <<n[1]>> \o replaceEscapedNewline(Tail(n))

\* normalizeName(n)
normalizeName(n) ==
    [i \in DOMAIN replaceEscapedNewline(n) |-> ToLower(replaceEscapedNewline(n)[i])]

\* the callback of refs, were it to record the callee as well
refsRecordAll(w, n) ==
    IF n.type = "Ident" THEN [w EXCEPT !.outs = Append(@, normalizeName(n.Name))]
    ELSE w

\* the callback of refs: it skips the node after a CallExpr, and records
\* every other Ident; it always returns true
refsCallback(w, n) ==
    IF w.fnNameNext THEN [w EXCEPT !.fnNameNext = FALSE]
    ELSE IF n.type = "CallExpr" THEN [w EXCEPT !.fnNameNext = TRUE]
    ELSE IF n.type = "Ident" THEN [w EXCEPT !.outs = Append(@, normalizeName(n.Name))]
    ELSE w

\* a callback that declines the nodes of some types
DeclineTypes == {"ParenExpr", "CallExpr", "BinaryExpr"}

Callbacks ==
    {[kind |-> "refs"]} \cup {[kind |-> "decline", types |-> s] : s \in SUBSET DeclineTypes}

\* what the callback returns for a node
accepts(cb, n) == cb.kind = "refs" \/ n.type \notin cb.types

\* the callback's variables after it was given a node
called(w, n) == IF w.cb.kind = "refs" THEN refsCallback(w, n) ELSE w

\* Inspect, were it to walk the children of a node last child first
visitReversed(w, n) ==
    [called(w, n) EXCEPT
        !.visited = Append(@, n),
        !.stack = (IF accepts(w.cb, n)
                   THEN [i \in DOMAIN childrenOf(n) |->
                            childrenOf(n)[Len(childrenOf(n)) + 1 - i]]
                   ELSE <<>>) \o Tail(w.stack)]

\* Inspect at one node: the callback is given the node; if it returns true
\* the children are walked next, in source order, before what was pending
visit(w, n) ==
    [called(w, n) EXCEPT
        !.visited = Append(@, n),
        !.stack = (IF accepts(w.cb, n) THEN childrenOf(n) ELSE <<>>) \o Tail(w.stack)]

\* texts with callees, nested calls, and names that normalizeName changes
WalkTexts ==
    { <<"f", "(", "g", "(", "x", ")", ")">>,
      <<"R", "a", "t", "e", "*", "A">>,
      <<"a", "\\", "n", "b", "+", "f", "(", "B", ")">>,
      <<"(", "a", "+", "f", "(", ")", ")", "*", "(", "b", ")">> }

WalkInputs == WalkTexts \cup Examples \cup {c.text : c \in CallCases}

InitWalk ==
    /\ argName \in Names
    /\ argEqn \in WalkInputs
    /\ pc = "call"
    /\ fileSet = NoFileSet
    /\ parser = NoParser
    /\ parsed = NoResult
    /\ ret = NoReturn
    /\ prev = NoCall
    /\ NoLexCalls
    /\ insp = NoInspect
    /\ rf = NoReadFile

\* Inspect(expr, f) is called on the tree Parse returned
InspectCall ==
    /\ pc = "done"
    /\ ret.ast # NilExpr /\ ret.errType = "nil"
    /\ \E cb \in Callbacks :
          insp' = [NoInspect EXCEPT !.cb = cb, !.stack = <<ret.ast>>]
    /\ pc' = "inspect"
    /\ UNCHANGED <<argName, argEqn, fileSet, parser, parsed, ret, prev>>
    /\ UNCHANGED lexVars
    /\ UNCHANGED rf

\* Inspect reaches its next node
InspectVisit ==
    /\ pc = "inspect"
    /\ insp.stack # <<>>
    /\ insp' = visit(insp, Head(insp.stack))
    /\ UNCHANGED <<argName, argEqn, pc, fileSet, parser, parsed, ret, prev>>
    /\ UNCHANGED lexVars
    /\ UNCHANGED rf

\* Inspect returns: no node is left
InspectReturn ==
    /\ pc = "inspect"
    /\ insp.stack = <<>>
    /\ pc' = "inspected"
    /\ UNCHANGED <<argName, argEqn, fileSet, parser, parsed, ret, prev, insp>>
    /\ UNCHANGED lexVars
    /\ UNCHANGED rf

NextWalk ==
    \/ ParseBegin
    \/ ParseRun
    \/ ParseReturn
    \/ InspectCall
    \/ InspectVisit
    \/ InspectReturn

SpecWalk == InitWalk /\ [][NextWalk]_vars

(***************************************************************************)
(* compat.ReadFile and the cleaning of display tags                        *)
(***************************************************************************)

\* an xmile.Display: its tag name and namespace, its text, its children
Display(Local, Space, Content, Children) ==
    [kind |-> "Display", Local |-> Local, Space |-> Space,
     Content |-> Content, Children |-> Children]

\* cleanIseeDisplayTag(d, inNS), d not nil
RECURSIVE cleanIseeDisplayTag(_, _)
cleanIseeDisplayTag(d, inNS) ==
    Display(d.Local,
            IF (inNS \/ d.Local = "story") /\ d.Local # "text_box" THEN "isee" ELSE "",
            IF d.Local \in {"text_box", "item"} THEN d.Content ELSE "",
            [i \in DOMAIN d.Children |->
                cleanIseeDisplayTag(d.Children[i], inNS \/ d.Local = "story")])

\* the most models in a document, and the most variables in a model
MaxModels == 1
MaxVars == 2

\* <display> elements as xml.Unmarshal decodes them: every tag in the
\* namespace of the document
DisplayTags ==
    { Display("display", "xmile", " ", <<>>),
      Display("display", "xmile", " ", <<Display("text_box", "xmile", "hi", <<>>)>>),
      Display("story", "xmile", " ", <<Display("item", "xmile", "one", <<>>),
                                       Display("text_box", "xmile", "two", <<>>)>>) }

\* a variable as decoded: Display is nil when it has no <display> element
VariableInputs == {[Space |-> "xmile", Display |-> d] : d \in DisplayTags \cup {NilDisplay}}

VariableLists == UNION {[1..n -> VariableInputs] : n \in 0..MaxVars}

ModelInputs ==
    {[Variables |-> vs, Display |-> [Space |-> "xmile", Ents |-> es]] :
        vs \in VariableLists,
        es \in {<<>>, <<Display("story", "xmile", " ", <<>>)>>}}

\* the contents given to ReadFile: not XML, or a document of at most
\* the given number of models
Documents(most) ==
    {[ok |-> FALSE]} \cup
    UNION {{[ok |-> TRUE, Models |-> ms] : ms \in [1..n -> ModelInputs]} : n \in 0..most}

InitRead ==
    /\ argName \in Names
    /\ argEqn = <<>>
    /\ pc = "read"
    /\ fileSet = NoFileSet
    /\ parser = NoParser
    /\ parsed = NoResult
    /\ ret = NoReturn
    /\ prev = NoCall
    /\ NoLexCalls
    /\ insp = NoInspect
    /\ \E c \in Documents(MaxModels) : rf = [NoReadFile EXCEPT !.contents = c]

\* the variables no step of ReadFile changes
notReadVars ==
    <<argName, argEqn, fileSet, parser, parsed, ret, prev, lx, lexCall, steps, out, seen, insp>>

\* ReadFile, lines 145-148: xml.Unmarshal fails, or fills the File
ReadUnmarshal ==
    /\ pc = "read"
    /\ IF ~rf.contents.ok
       THEN /\ rf' = [rf EXCEPT !.ret = [file |-> NilFile, err |-> "xml.Unmarshal"]]
            /\ pc' = "returned"
       ELSE /\ rf' = [rf EXCEPT !.f = [kind |-> "File", Models |-> rf.contents.Models],
                                !.m = 1]
            /\ pc' = "models"
    /\ UNCHANGED notReadVars

\* ReadFile, lines 161-163 and 181: the next model, or return f, nil
ReadModel ==
    /\ pc = "models"
    /\ IF rf.m > Len(rf.f.Models)
       THEN /\ rf' = [rf EXCEPT !.ret = [file |-> rf.f, err |-> "nil"]]
            /\ pc' = "returned"
       ELSE /\ rf' = [rf EXCEPT !.f.Models[rf.m].Display.Space = "", !.v = 1]
            /\ pc' = "variables"
    /\ UNCHANGED notReadVars

\* ReadFile, lines 164-172: one variable of the model; line 171 calls
\* cleanIseeDisplayTag(v.Display, false), whose first statement writes
\* through d
ReadVariable ==
    /\ pc = "variables"
    /\ rf.v <= Len(rf.f.Models[rf.m].Variables)
    /\ IF rf.f.Models[rf.m].Variables[rf.v].Display = NilDisplay
       THEN /\ pc' = "panic"
            /\ rf' = [rf EXCEPT !.f.Models[rf.m].Variables[rf.v].Space = ""]
       ELSE /\ pc' = "variables"
            /\ rf' = [rf EXCEPT
                        !.f.Models[rf.m].Variables[rf.v] =
                            [Space |-> "",
                             Display |-> cleanIseeDisplayTag(@.Display, FALSE)],
                        !.v = @ + 1]
    /\ UNCHANGED notReadVars

\* ReadFile, lines 173-178: the entities of the views of the model (those of
\* m.Interface are cleaned as those of m.Display are)
ReadViews ==
    /\ pc = "variables"
    /\ rf.v > Len(rf.f.Models[rf.m].Variables)
    /\ rf' = [rf EXCEPT
                !.f.Models[rf.m].Display.Ents =
                    [i \in DOMAIN @ |-> cleanIseeDisplayTag(@[i], FALSE)],
                !.m = @ + 1]
    /\ pc' = "models"
    /\ UNCHANGED notReadVars

NextRead == ReadUnmarshal \/ ReadModel \/ ReadVariable \/ ReadViews

SpecRead == InitRead /\ [][NextRead]_vars

(***************************************************************************)
(* Properties                                                              *)
(***************************************************************************)

\* Parse returned diagnostics and no tree
Failed == ret.ast = NilExpr /\ ret.errType = "ErrorList" /\ ret.err # <<>>

\* Parse returned a tree and a nil error
Succeeded == ret.ast # NilExpr /\ ret.errType = "nil"

\* C1: every Parse call returns, and returns either a tree with a nil error
\* or no tree with a non-empty diagnostic list: never both, never neither.
C1_TreeOrDiagnostics ==
    /\ pc # "panic"
    /\ pc = "done" => (Succeeded /\ ~Failed) \/ (Failed /\ ~Succeeded)

\* a failed call whose parser had built part of a tree, which Parse drops
C1_Witness == pc = "done" /\ Failed /\ parsed.x # NilExpr

\* C2: for factors a, b, c the text 'a+b*c' parses to
\* BinaryExpr(a, +, BinaryExpr(b, *, c)): '*' binds tighter than '+'.
C2_MulBindsTighter ==
    pc = "done" =>
        \A f1 \in Factors, f2 \in Factors, f3 \in Factors :
            argEqn = f1.text \o <<"+">> \o f2.text \o <<"*">> \o f3.text =>
                /\ Succeeded
                /\ Shape(ret.ast) =
                       SBin(f1.shape, "ADD", SBin(f2.shape, "MUL", f3.shape))

\* C3: '2^3^2' parses to BinaryExpr(BinaryExpr(2, ^, 3), ^, 2).
C3_ExponentChain ==
    pc = "done" /\ argEqn = <<"2", "^", "3", "^", "2">> =>
        /\ Succeeded
        /\ Shape(ret.ast) =
               SBin(SBin(SLit(<<"2">>), "XOR", SLit(<<"3">>)), "XOR", SLit(<<"2">>))

\* C4: an identifier followed by a parenthesised, comma-separated list of
\* expressions parses to a CallExpr of that identifier with the arguments in
\* source order (none for 'f()'), and such a call plus c parses to
\* BinaryExpr(call, +, c), as 'MIN(a,b)+c' does.
C4_Calls ==
    pc = "done" =>
        \A c \in CallCases :
            argEqn = c.text => Succeeded /\ Shape(ret.ast) = c.shape

\* 'MIN(a,b)+c' parsed to a sum whose left operand is a call of two arguments
C4_Witness ==
    /\ pc = "done"
    /\ argEqn = <<"M", "I", "N", "(", "a", ",", "b", ")", "+", "c">>
    /\ ret.ast.type = "BinaryExpr"
    /\ ret.ast.X.type = "CallExpr"
    /\ Len(ret.ast.X.Args) = 2

\* C5: two parenthesised factors written one after the other, as '(a)(b)',
\* parse to their product, and the operator is the '*' token the lexer
\* inserted: the text holds no '*'.
C5_ImplicitMul ==
    pc = "done" =>
        \A f1 \in ParenFactors, f2 \in ParenFactors :
            argEqn = f1.text \o f2.text =>
                /\ Succeeded
                /\ Shape(ret.ast) = SBin(f1.shape, "MUL", f2.shape)
                /\ \A i \in DOMAIN argEqn : argEqn[i] # "*"
                /\ \E i \in DOMAIN Tokens(argEqn) :
                       Tokens(argEqn)[i] =
                           Token(itemOperator, ret.ast.OpPos, <<"*">>)

\* '(a)(b)' parsed to a product
C5_Witness ==
    /\ pc = "done"
    /\ argEqn = <<"(", "a", ")", "(", "b", ")">>
    /\ ret.ast.type = "BinaryExpr"
    /\ ret.ast.Op = "MUL"

\* the tokens of a list before its first terminator or end marker
RECURSIVE firstStatement(_)
firstStatement(toks) ==
    IF toks = <<>> \/ Head(toks).kind \in {itemSemi, itemEOF, "nil"} THEN <<>>
    ELSE <<Head(toks)>> \o firstStatement(Tail(toks))

\* how many '(' of a token list are open at its end
RECURSIVE openParens(_, _)
openParens(toks, depth) ==
    IF toks = <<>> THEN depth
    ELSE IF Head(toks).kind = itemLParen THEN openParens(Tail(toks), depth + 1)
    ELSE IF Head(toks).kind = itemRParen /\ depth > 0
    THEN openParens(Tail(toks), depth - 1)
    ELSE openParens(Tail(toks), depth)

\* the expression of the text, up to its terminator, has a '(' that no ')'
\* closes
UnclosedParen(eqn) == openParens(firstStatement(Tokens(eqn)), 0) > 0

\* C6: a text whose expression has a '(' with no matching ')' before the
\* terminator, as 'a+(b', makes Parse return diagnostics and no tree.
C6_UnclosedParen == pc = "done" /\ UnclosedParen(argEqn) => Failed

\* 'a+(b' failed
C6_Witness ==
    /\ pc = "done"
    /\ argEqn = <<"a", "+", "(", "b">>
    /\ UnclosedParen(argEqn)
    /\ Failed

\* C7: Parse returns a tree only when nothing but terminators is left in
\* the text after the top-level expression.
C7_NothingLeftOver ==
    pc = "done" /\ Succeeded =>
        \A i \in DOMAIN scanAll(parser.lex) :
            scanAll(parser.lex)[i].kind \in {itemSemi, itemEOF}

\* the lexer after it delivered its end marker
RECURSIVE scanEnd(_)
scanEnd(l) ==
    LET t == LexToken(l)
    IN IF t.tok.kind \in {itemEOF, "nil"} THEN t.l ELSE scanEnd(t.l)

\* scanning the text ends in the lexer's error state: the model's runes
\* reach it only from a string literal whose closing quote is missing
UnterminatedLiteral(eqn) ==
    scanEnd(newLexer(normalize(eqn), AddFile(NewFileSet, "", Len(normalize(eqn))))).state
        = "nil"

\* C8: a text with a string literal that lacks its closing quote makes
\* Parse return diagnostics and no tree.
C8_UnterminatedLiteral == pc = "done" /\ UnterminatedLiteral(argEqn) => Failed

textBetween(l, from, to) == SubSeq(l.s, from - l.f.base + 1, to - l.f.base)

\* C10: in a parsed tree, the text from Pos() to End() of every Ident and
\* BasicLit is the node's Name or Value.
C10_LeafSpans ==
    pc = "done" /\ Succeeded =>
        \A n \in Nodes(ret.ast) :
            /\ n.type = "Ident" => textBetween(parser.lex, Pos(n), End(n)) = n.Name
            /\ n.type = "BasicLit" => textBetween(parser.lex, Pos(n), End(n)) = n.Value
\* the children of a node, in no order
Children(n) ==
    IF n.type = "ParenExpr" THEN {n.X}
    ELSE IF n.type = "CallExpr" THEN {n.Fun} \cup {n.Args[i] : i \in DOMAIN n.Args}
    ELSE IF n.type = "BinaryExpr" THEN {n.X, n.Y}
    ELSE {}

\* C11: in a parsed tree every node's span covers its contents:
\* Pos(n) <= End(n), and Pos(n) <= Pos(c) and End(c) <= End(n) for every
\* child c of a ParenExpr, CallExpr or BinaryExpr n.
C11_SpansCover ==
    pc = "done" /\ Succeeded =>
        \A n \in Nodes(ret.ast) :
            /\ Pos(n) <= End(n)
            /\ \A c \in Children(n) : Pos(n) <= Pos(c) /\ End(c) <= End(n)

\* the rightmost child of a composite node
RightmostChild(n) ==
    IF n.type = "ParenExpr" THEN n.X
    ELSE IF n.type = "CallExpr"
    THEN IF n.Args = <<>> THEN n.Fun ELSE n.Args[Len(n.Args)]
    ELSE n.Y

\* the composite nodes of a tree
Composites(x) == {n \in Nodes(x) : n.type \in {"ParenExpr", "CallExpr", "BinaryExpr"}}

StateStepTaken == steps' = steps + 1

\* the state function put a token in l.items (empty before it ran)
Emitted == lx'.items # <<>>

stateWeight(st) ==
    IF st \in {"begin", "comment"} THEN 2
    ELSE IF st = "statement" THEN 1
    ELSE 0

\* the runes left to read, then the hand-overs left without reading
rank(l) == 3 * (Len(l.s) - l.pos) + stateWeight(l.state)

PeekReturned ==
    \/ lexCall = "none" /\ lexCall' = "none" /\ steps' = 0 /\ out' = out
    \/ lexCall = "Peek" /\ lexCall' = "none"

\* a Token() call returned in this step
TokenReturned == Len(out') = Len(out) + 1

IsPrefix(s, u) == Len(s) <= Len(u) /\ SubSeq(u, 1, Len(s)) = s

\* C14: consecutive Peek() calls return the same token, the next Token()
\* call returns that token, and the tokens returned by Token() are, in
\* order and with none lost or repeated, those a lexer that is never
\* peeked delivers.
C14_PeekNeverConsumes ==
    /\ [][PeekReturned /\ seen # NilTok => seen' = seen]_vars
    /\ [][TokenReturned /\ seen # NilTok => out'[Len(out')] = seen]_vars
    /\ [](pc = "lex" => IsPrefix(out, Tokens(argEqn)))
    /\ [](pc = "lex" /\ LexDone => out = Tokens(argEqn))

\* Peek() returned the second token, which the lexer keeps, after Token()
\* returned the first
C14_Witness ==
    /\ pc = "lex"
    /\ lexCall = "none"
    /\ Len(out) = 1
    /\ seen # NilTok
    /\ seen.kind # itemEOF
    /\ lx.peeked = seen
    /\ Tokens(argEqn)[2] = seen

(***************************************************************************)
(* C15: a newline as implicit terminator                                   *)
(***************************************************************************)

\* the kinds of token after which a newline ends the statement
StatementEnders ==
    {itemIdentifier, itemNumber, itemLiteral,
     itemRBracket, itemRParen, itemRSquare}

\* this step is lexer.statement reading a newline
NewlineRead ==
    /\ StateStepTaken
    /\ lx.state = "statement"
    /\ lx.pos < Len(lx.s)
    /\ lx.s[lx.pos + 1] = "\n"

\* a terminator token that stands for a newline
ImplicitSemi(t) == t.kind = itemSemi /\ t.val = <<"\n">>

\* C15: lexer.statement reading a newline emits one terminator token if the
\* most recently emitted token is an identifier, number, string literal or
\* closing bracket, and emits nothing after any other token or at the start
\* of the input; so every implicit terminator delivered follows such a
\* token, and no implicit terminator follows a terminator.
C15_NewlineTerminator ==
    /\ [][NewlineRead =>
            IF lx.last.kind \in StatementEnders
            THEN Len(lx'.items) = 1 /\ ImplicitSemi(lx'.items[1])
            ELSE lx'.items = <<>>]_vars
    /\ [](\A i \in DOMAIN out :
            ImplicitSemi(out[i]) => i > 1 /\ out[i - 1].kind \in StatementEnders)

\* "a" and two newlines: one implicit terminator was delivered after the
\* identifier, and the next token is the terminator Parse appended
C15_Witness ==
    /\ pc = "lex"
    /\ Len(argEqn) = 3 /\ argEqn[2] = "\n" /\ argEqn[3] = "\n"
    /\ Len(out) = 3
    /\ out[1].kind = itemIdentifier
    /\ ImplicitSemi(out[2])
    /\ out[3] = Token(itemSemi, out[3].pos, <<";">>)

(***************************************************************************)
(* C16: round trip of token text                                           *)
(***************************************************************************)

\* the text Token.String renders for a token
tokenText(t) == IF t.kind = itemSemi THEN <<";">> ELSE t.val

\* the texts of a token list, one after the other
RECURSIVE concatTexts(_)
concatTexts(toks) ==
    IF toks = <<>> THEN <<>>
    ELSE tokenText(Head(toks)) \o concatTexts(Tail(toks))

\* the tokens the parser is delivered: the first statement and its terminator
delivered(toks) == SubSeq(toks, 1, Len(firstStatement(toks)) + 1)

sameKindsAndTexts(a, b) ==
    /\ Len(a) = Len(b)
    /\ \A i \in DOMAIN a : a[i].kind = b[i].kind /\ tokenText(a[i]) = tokenText(b[i])

\* C16 as stated, for the tokens delivered to the parser: after a successful
\* parse, scanning the concatenation of their rendered texts yields tokens
\* of the same kinds and rendered texts.
C16_RoundTrip ==
    pc = "done" /\ Succeeded =>
        sameKindsAndTexts(delivered(Tokens(argEqn)),
                          delivered(Tokens(concatTexts(delivered(Tokens(argEqn))))))

(***************************************************************************)
(* C17: the diagnostics of a failed Parse                                  *)
(***************************************************************************)

\* the first diagnostic the parser recorded at a position
firstAt(errs, pos) ==
    errs[CHOOSE i \in DOMAIN errs :
            errs[i].pos = pos /\ \A j \in 1..(i - 1) : errs[j].pos # pos]

\* C17: the diagnostics a failed Parse returns are in strictly increasing
\* order of position, so at most one per position; each is the first the
\* parser recorded at its position, and every position recorded is kept.
C17_SortedOnePerPosition ==
    pc = "done" /\ Failed =>
        /\ \A i \in 1..(Len(ret.err) - 1) :
              ret.err[i].pos.Offset < ret.err[i + 1].pos.Offset
        /\ \A i \in DOMAIN ret.err : ret.err[i] = firstAt(parser.errs, ret.err[i].pos)
        /\ \A j \in DOMAIN parser.errs :
              \E i \in DOMAIN ret.err : ret.err[i].pos = parser.errs[j].pos

\* the parser recorded 'unexpected token' and then 'call: expected expr arg'
\* at the same lookahead token, and Parse returned the first alone
C17_Witness ==
    /\ pc = "done" /\ Failed
    /\ Len(parser.errs) = 2
    /\ parser.errs[1].pos = parser.errs[2].pos
    /\ parser.errs[1].msg.format = "unexpected token"
    /\ parser.errs[2].msg.format = "call: expected expr arg"
    /\ ret.err = <<parser.errs[1]>>

(***************************************************************************)
(* C18: the references refs collects                                       *)
(***************************************************************************)

\* n is the Fun of a CallExpr of the tree
IsCallee(n) == \E c \in Nodes(ret.ast) : c.type = "CallExpr" /\ c.Fun = n

\* the Idents among the nodes visited that are no callee, in visit order
RECURSIVE referenceIdents(_)
referenceIdents(nodes) ==
    IF nodes = <<>> THEN <<>>
    ELSE IF Head(nodes).type = "Ident" /\ ~IsCallee(Head(nodes))
    THEN <<Head(nodes)>> \o referenceIdents(Tail(nodes))
    ELSE referenceIdents(Tail(nodes))

\* Inspect, driven by the callback of refs, has returned
RefsDone == pc = "inspected" /\ insp.cb.kind = "refs"

\* every node of the tree was given to the callback, the callees included
AllVisited == {insp.visited[i] : i \in DOMAIN insp.visited} = Nodes(ret.ast)

\* C18 as stated: the reference list holds the Name of every Ident that is
\* no callee, in visit order, and nothing else; callees are visited.
C18_RefsNames ==
    RefsDone =>
        /\ AllVisited
        /\ insp.outs = [i \in DOMAIN referenceIdents(insp.visited) |->
                            referenceIdents(insp.visited)[i].Name]

\* C18, amended: the reference list holds, in visit order, the normalised
\* name (lower case, a backslash followed by n replaced by "_") of every
\* Ident that is no callee, and nothing else; callees are visited.
C18_RefsNormalizedNames ==
    RefsDone =>
        /\ AllVisited
        /\ insp.outs = [i \in DOMAIN referenceIdents(insp.visited) |->
                            normalizeName(referenceIdents(insp.visited)[i].Name)]

\* the references of a\nb+f(B): the callee f was visited and is not among
\* them, and both names were normalised
C18_Witness ==
    /\ RefsDone
    /\ \E i \in DOMAIN insp.visited :
          insp.visited[i].type = "Ident" /\ insp.visited[i].Name = <<"f">>
    /\ insp.outs = <<<<"a", "_", "b">>, <<"b">>>>

(***************************************************************************)
(* C19: the order in which Inspect visits                                  *)
(***************************************************************************)

\* the place of a visited node among the nodes visited
visitIndex(n) == CHOOSE i \in DOMAIN insp.visited : insp.visited[i] = n

WasVisited(n) == \E i \in DOMAIN insp.visited : insp.visited[i] = n

\* the nodes of the tree that n is a descendant of
ProperAncestors(n) == {m \in Nodes(ret.ast) : m # n /\ n \in Nodes(m)}

\* C19: Inspect gives no node to the callback twice; a node other than
\* the root is visited after its parent, and only if the callback returned
\* true for the parent; the subtree of a child is visited before the
\* subtree of every later child (Fun before Args, X before Y); and when
\* Inspect returns, the nodes visited are exactly those none of whose
\* ancestors was declined.
C19_PreOrder ==
    pc \in {"inspect", "inspected"} =>
        /\ \A i, j \in DOMAIN insp.visited : insp.visited[i] = insp.visited[j] => i = j
        /\ \A j \in DOMAIN insp.visited :
              \/ insp.visited[j] = ret.ast
              \/ \E i \in 1..(j - 1) :
                    /\ accepts(insp.cb, insp.visited[i])
                    /\ insp.visited[j] \in Children(insp.visited[i])
        /\ \A p \in Nodes(ret.ast) : \A a, b \in DOMAIN childrenOf(p) :
              a < b =>
                \A m \in Nodes(childrenOf(p)[a]), n \in Nodes(childrenOf(p)[b]) :
                    WasVisited(n) =>
                        /\ accepts(insp.cb, p)
                        /\ WasVisited(childrenOf(p)[a])
                        /\ WasVisited(m) => visitIndex(m) < visitIndex(n)
        /\ pc = "inspected" =>
              \A n \in Nodes(ret.ast) :
                  WasVisited(n) <=> \A m \in ProperAncestors(n) : accepts(insp.cb, m)

\* a callback that declines calls was given f(g(b))+c: the call, whose
\* descendants were skipped, and then its sibling c
C19_Witness ==
    /\ pc = "inspected"
    /\ insp.cb = [kind |-> "decline", types |-> {"CallExpr"}]
    /\ Len(insp.visited) = 3
    /\ insp.visited[1] = ret.ast
    /\ insp.visited[2].type = "CallExpr"
    /\ Len(insp.visited[2].Args) = 1
    /\ insp.visited[2].Args[1].type = "CallExpr"
    /\ insp.visited[3].type = "Ident"
    /\ insp.visited[3] = ret.ast.Y

(***************************************************************************)
(* C20: ReadFile returns a File or an error                                *)
(***************************************************************************)

\* C20 as stated: ReadFile never aborts, and what it returns is a File
\* with a nil error or a nil File with an error.
C20_ReadFileReturns ==
    /\ pc # "panic"
    /\ pc = "returned" =>
          \/ rf.ret.file # NilFile /\ rf.ret.err = "nil"
          \/ rf.ret.file = NilFile /\ rf.ret.err \notin {"nil", "none"}

(***************************************************************************)
(* C21: a chain of operators of one level folds to the left                *)
(***************************************************************************)

\* the levels of binary operators: additive, multiplicative
SameLevel(o1, o2) == {o1, o2} \subseteq {"+", "-"} \/ {o1, o2} \subseteq {"*", "/"}

\* the name opToken gives an operator
OpName(o) == opToken(Token(itemOperator, 0, <<o>>))

\* the operator tokens of a token list
RECURSIVE operatorTokens(_)
operatorTokens(toks) ==
    IF toks = <<>> THEN <<>>
    ELSE IF Head(toks).kind = itemOperator
    THEN <<Head(toks)>> \o operatorTokens(Tail(toks))
    ELSE operatorTokens(Tail(toks))

\* C21: for factors f1, f2, f3 and operators o1, o2 of one level, the text
\* 'f1 o1 f2 o2 f3' parses to BinaryExpr(BinaryExpr(f1, o1, f2), o2, f3), and
\* each BinaryExpr carries the name and the position of its own operator
\* token.
C21_LeftFold ==
    pc = "done" =>
        \A c \in OpChains :
            argEqn = c.text /\ SameLevel(c.o1, c.o2) =>
                /\ Succeeded
                /\ Shape(ret.ast) =
                       SBin(SBin(c.f1.shape, OpName(c.o1), c.f2.shape),
                            OpName(c.o2), c.f3.shape)
                /\ operatorTokens(Tokens(argEqn)) =
                       << Token(itemOperator, ret.ast.X.OpPos, <<c.o1>>),
                          Token(itemOperator, ret.ast.OpPos, <<c.o2>>) >>

\* a-(b)+3.5 was parsed: the root is the '+', its left operand the '-'
C21_Witness ==
    /\ pc = "done" /\ Succeeded
    /\ argEqn = <<"a", "-", "(", "b", ")", "+", "3", ".", "5">>
    /\ ret.ast.type = "BinaryExpr" /\ ret.ast.Op = "ADD"
    /\ ret.ast.X.type = "BinaryExpr" /\ ret.ast.X.Op = "SUB"
    /\ ret.ast.X.OpPos < ret.ast.OpPos

(***************************************************************************)
(* C22: the synthesized '*'                                                *)
(***************************************************************************)

\* a token whose text is not the text that ends where the token says: the
\* lexer made it up
Synthesized(s, t) ==
    t.kind # "nil" /\
    LET off == t.pos - 1
    IN off < Len(t.val) \/ off > Len(s) \/ SubSeq(s, off - Len(t.val) + 1, off) # t.val

\* the synthesized tokens of a token list are each a '*' operator right
\* after a ')' and right before a '(', and no ')' is right before a '('
StarsBetweenParens(s, toks) ==
    /\ \A i \in DOMAIN toks :
          Synthesized(s, toks[i]) =>
              /\ toks[i].kind = itemOperator /\ toks[i].val = <<"*">>
              /\ i > 1 /\ i < Len(toks)
              /\ toks[i - 1].kind = itemRParen /\ ~Synthesized(s, toks[i - 1])
              /\ toks[i + 1].kind = itemLParen /\ ~Synthesized(s, toks[i + 1])
    /\ \A i \in 1..(Len(toks) - 1) :
          ~(toks[i].kind = itemRParen /\ toks[i + 1].kind = itemLParen)

\* C22: in the tokens of every text, between a ')' and a '(' with no token
\* between them there is exactly one synthesized '*', and there is no
\* synthesized token anywhere else.
C22_SynthesizedStar ==
    pc = "done" => StarsBetweenParens(normalize(argEqn), Tokens(argEqn))

(***************************************************************************)
(* C23: the terminator Parse appends                                       *)
(***************************************************************************)

\* a text without its trailing white space
RECURSIVE trimRight(_)
trimRight(s) ==
    IF s # <<>> /\ IsSpace(s[Len(s)]) THEN trimRight(SubSeq(s, 1, Len(s) - 1)) ELSE s

\* the last rune of a text that is no white space is ';'
EndsInTerminator(s) == trimRight(s) # <<>> /\ trimRight(s)[Len(trimRight(s))] = ";"

\* C23: the text the lexer is given is the equation text with one ';'
\* appended if and only if its last rune that is no white space is not ';',
\* and the equation text unchanged otherwise.
C23_AppendsTerminator ==
    pc \in {"parse", "check", "done"} =>
        parser.lex.s = IF EndsInTerminator(argEqn) THEN argEqn ELSE argEqn \o <<";">>

(***************************************************************************)
(* C24: '{' and '}'                                                        *)
(***************************************************************************)

\* how many runes of a text are r
RECURSIVE countRune(_, _)
countRune(s, r) ==
    IF s = <<>> THEN 0
    ELSE (IF Head(s) = r THEN 1 ELSE 0) + countRune(Tail(s), r)

\* how many tokens of a list are of a kind and a text
RECURSIVE countTokens(_, _, _)
countTokens(toks, kind, val) ==
    IF toks = <<>> THEN 0
    ELSE (IF Head(toks).kind = kind /\ Head(toks).val = val THEN 1 ELSE 0)
         + countTokens(Tail(toks), kind, val)

\* C24: each '{' of the text is scanned as one token '{' of kind
\* itemLBracket, each '}' as one token '}' of kind itemRBracket, and no
\* other token holds a '{' or a '}'.
C24_Brackets ==
    pc = "done" /\ argEqn \in BraceTexts =>
        /\ countTokens(Tokens(argEqn), itemLBracket, <<"{">>) = countRune(argEqn, "{")
        /\ countTokens(Tokens(argEqn), itemRBracket, <<"}">>) = countRune(argEqn, "}")
        /\ \A i \in DOMAIN Tokens(argEqn) :
              Tokens(argEqn)[i].kind \notin {itemLBracket, itemRBracket} =>
                  \A j \in DOMAIN Tokens(argEqn)[i].val :
                      Tokens(argEqn)[i].val[j] \notin {"{", "}"}

(***************************************************************************)
(* C25: comments are discarded                                             *)
(***************************************************************************)

\* where the first "//" of a text begins, 0 if it has none
commentStart(s) ==
    IF \E i \in 1..(Len(s) - 1) : s[i] = "/" /\ s[i + 1] = "/"
    THEN CHOOSE i \in 1..(Len(s) - 1) :
            /\ s[i] = "/" /\ s[i + 1] = "/"
            /\ \A j \in 1..(i - 1) : ~(s[j] = "/" /\ s[j + 1] = "/")
    ELSE 0

\* where the line that holds rune i of a text ends: its newline, or one
\* past the text
lineEnd(s, i) ==
    IF \E j \in i..Len(s) : s[j] = "\n"
    THEN CHOOSE j \in i..Len(s) : s[j] = "\n" /\ \A k \in i..(j - 1) : s[k] # "\n"
    ELSE Len(s) + 1

\* a text without its first comment
deleteComment(s) ==
    SubSeq(s, 1, commentStart(s) - 1) \o SubSeq(s, lineEnd(s, commentStart(s)), Len(s))

\* C25: for a text with a comment and no string literal, the tokens of the
\* text and of the text without the comment have the same kinds and the
\* same rendered texts.
C25_CommentDiscarded ==
    pc = "done" /\ commentStart(argEqn) > 0 /\ countRune(argEqn, "\"") = 0 =>
        sameKindsAndTexts(Tokens(argEqn), Tokens(deleteComment(argEqn)))

(***************************************************************************)
(* C26: the nodes Parse builds                                             *)
(***************************************************************************)

\* the node types the grammar reaches
ReachableTypes == {"Ident", "BasicLit", "ParenExpr", "CallExpr", "BinaryExpr"}

\* the kinds of token an operand begins with
OperandStarts == {itemLParen, itemNumber, itemIdentifier}

\* token i of a list is where an operand is due: the first token, or the
\* token after an operator
OperandDue(toks, i) == i = 1 \/ toks[i - 1].kind = itemOperator

\* C26: a tree Parse returns has only Ident, BasicLit, ParenExpr, CallExpr
\* and BinaryExpr nodes, and a text whose first statement has, where an
\* operand is due, a token that is no '(', number or identifier is answered
\* with diagnostics.
C26_NodeTypes ==
    pc = "done" =>
        /\ Succeeded => \A n \in Nodes(ret.ast) : n.type \in ReachableTypes
        /\ (\E i \in DOMAIN delivered(Tokens(argEqn)) :
                /\ OperandDue(delivered(Tokens(argEqn)), i)
                /\ delivered(Tokens(argEqn))[i].kind \notin OperandStarts)
           => Failed

\* f(-a): the '-' is where the argument is due, and Parse failed
C26_Witness ==
    /\ pc = "done" /\ Failed
    /\ argEqn = <<"f", "(", "-", "a", ")">>
    /\ Tokens(argEqn)[3] = Token(itemOperator, Tokens(argEqn)[3].pos, <<"-">>)
    /\ ret.err[1].msg.format = "unexpected token"

(***************************************************************************)
(* C27: Parse does not abort                                               *)
(***************************************************************************)

\* the token the parser would be handed next is the end marker, not yet
\* consumed
EndMarkerWaiting(l) ==
    \/ l.peeked # NilTok /\ l.peeked.kind = itemEOF
    \/ l.peeked = NilTok /\ l.items # <<>> /\ Head(l.items).kind = itemEOF

\* C27: Parse returns for every text: the parser raises none of its panics
\* ('missing semicolon', 'illegal level', 'illegal token'), the lexer is
\* never stepped once its state function is nil, and after a lexical error
\* the end marker is still waiting, unconsumed, when Parse returns.
C27_ParseReturns ==
    /\ parser # NoParser => parser.panic = "no" /\ parser.lex.halted = "no"
    /\ pc \in {"call", "parse", "check", "done"}
    /\ (pc \in {"check", "done"} /\ parser.lex.state = "nil")
          => EndMarkerWaiting(parser.lex) /\ ~parsed.ok

\* an unterminated literal: the lexer's state function is nil and Parse
\* returned the diagnostics
C27_Witness ==
    /\ pc = "done" /\ Failed
    /\ argEqn = <<"a", "+", "\"">>
    /\ parser.lex.state = "nil"
    /\ parser.lex.peeked.kind = itemEOF

(***************************************************************************)
(* C28: no token is consumed after the first diagnostic                    *)
(***************************************************************************)

\* where the parser's lookahead token is
LookaheadPosition(p) == Position(p.lex.f, p.lex.peeked.pos)

\* C28: when p.Parse() returns with diagnostics recorded, it returns not-ok,
\* the token every diagnostic was recorded at is still the lookahead, none
\* having been consumed since, and so all diagnostics have one position.
C28_DiagnosticsAtLookahead ==
    (pc \in {"check", "done"} /\ parser.errs # <<>>) =>
        /\ ~parsed.ok
        /\ parser.lex.peeked # NilTok
        /\ \A i \in DOMAIN parser.errs :
              parser.errs[i].pos = LookaheadPosition(parser)

\* two diagnostics recorded on the way up from one offending token
C28_Witness ==
    /\ pc = "done" /\ Failed
    /\ Len(parser.errs) = 2
    /\ parser.errs[1].msg.format # parser.errs[2].msg.format
    /\ parser.errs[2].pos = LookaheadPosition(parser)

(***************************************************************************)
(* C29: the dispatch of lexer.statement is total                           *)
(***************************************************************************)

\* the runes the dispatch is tried on: those of the model's texts and some
\* that are neither digit, space, quote nor operator
DispatchRunes ==
    Runes \cup LexRunes \cup
    {"-", "[", "]", "{", "}", "^", "!", "?", "e", "E", "\t", "|", "&", "=", ":", ">", "<"}

\* the state function l.statement() returns on its first call for a text
\* that begins with r
dispatchOf(r) == runState(runState(parseSetup(<<"x">>, <<r>>).lex)).state

\* the text from the lexer's position on is a literal that is not closed
Unterminated(l) ==
    /\ l.pos < Len(l.s) /\ l.s[l.pos + 1] = "\""
    /\ \A i \in (l.pos + 2)..Len(l.s) : l.s[i] # "\""

\* C29: l.statement() hands every rune to a state (itself, comment, number,
\* literal, identifier or operator) and never stops the scan; the one state
\* function that stops it is l.literal(), on a literal that is not closed.
C29_DispatchTotal ==
    /\ \A r \in DispatchRunes : dispatchOf(r) # "nil"
    /\ [][(lx.state # "nil" /\ lx'.state = "nil")
            => (lx.state = "literal" /\ Unterminated(lx))]_vars

\* the scan stopped, and the token that reports it is the end marker
C29_Witness ==
    /\ pc = "lex" /\ lx.state = "nil"
    /\ \E i \in DOMAIN argEqn : argEqn[i] = "\""
    /\ lx.last.kind = itemEOF

(***************************************************************************)
(* C30: emit never blocks                                                  *)
(***************************************************************************)

\* the kinds of the tokens in l.items
itemKinds(l) == [i \in DOMAIN l.items |-> l.items[i].kind]

\* what one state function may leave in the buffer when it leaves two
\* tokens: ')' and the inserted '*', or a terminator and the end marker
TwoEmitted(l) ==
    \/ itemKinds(l) = <<itemRParen, itemOperator>> /\ l.items[2].val = <<"*">>
    \/ itemKinds(l) = <<itemSemi, itemEOF>>

\* a token left the buffer in this step: the oldest one, the rest staying
\* in order
Received == lx.items # <<>> /\ lx'.items = Tail(lx.items)

\* C30: no send on l.items finds the buffer full.  A state function runs
\* only with the buffer empty and leaves at most two tokens in it (')' and
\* '*', or a terminator and the end marker), the buffer never holds more
\* than two, and the buffer changes otherwise only by giving up its oldest
\* token, which is the one Token() returns.
C30_EmitNeverBlocks ==
    /\ [](Len(lx.items) <= ItemsCap /\ lx.halted # "send on full channel")
    /\ [][StateStepTaken =>
            /\ lx.items = <<>>
            /\ Len(lx'.items) <= 2
            /\ Len(lx'.items) = 2 => TwoEmitted(lx')]_vars
    /\ [][(~StateStepTaken /\ lx'.items # lx.items) => Received]_vars
    /\ [][(TokenReturned /\ lx.peeked = NilTok)
            => (Received /\ out' = Append(out, Head(lx.items)))]_vars

\* the buffer is full: ')' and the '*' inserted before the '(' that follows
C30_Witness ==
    /\ pc = "lex" /\ Len(lx.items) = ItemsCap
    /\ lx.items[1].kind = itemRParen
    /\ lx.items[2] = Token(itemOperator, lx.items[2].pos, <<"*">>)

=============================================================================
